---- MODULE Spec2Model ----
(***************************************************************************)
(* The partial_pub_fields lint pass (clippy_lints/src/partial_pub_fields.rs)*)
(* as a state machine.  The host's early-lint visitor calls                *)
(* PartialPubFields::check_item once per item; a call runs from "entry"    *)
(* through the field scan to "done", and every worker of the host has its  *)
(* own call in flight.                                                     *)
(***************************************************************************)
EXTENDS Naturals, Sequences, FiniteSets

VARIABLES
    pc,        \* pc[w]: position of worker w's call: idle, entry, scan, done, panicked
    item,      \* item[w]: the `item: &Item` argument of the call
    pos,       \* pos[w]: number of fields the `fields` iterator has yielded
    all_pub,   \* all_pub[f]: the local `all_pub` of call frame f
    all_priv,  \* all_priv[f]: the local `all_priv` of call frame f
    lints,     \* lints[w]: diagnostics the call has handed to cx, in order
    examined,  \* examined[w]: indices of the fields whose `vis` the call has read
    fixes,     \* fixes[w]: fixes the author applied to the item so far
    prev       \* prev[w]: field reported by the run before the last fix (0: none)

vars == <<pc, item, pos, all_pub, all_priv, lints, examined, fixes, prev>>

\* Longest field list of an item, single-worker specification.
MaxFields == 4
\* Longest field list of an item, two-worker specification.
MaxFieldsConc == 3

\* rustc_ast::VisibilityKind: Public, Restricted { .. }, Inherited.
VisibilityKind == {"Public", "Restricted", "Inherited"}

\* rustc_ast::ItemKind, the variants that matter here.
ItemKinds == {"Struct", "Enum", "Union", "Fn", "Trait"}

ConcItemKinds == {"Struct", "Enum"}

ConcWorkers == {1, 2}

SeqsUpTo(S, n) == UNION {[1..k -> S] : k \in 0..n}

\* An item: its kind and the visibilities of the fields declared inside it,
\* in declaration order.  The span of field i's visibility is i.
Items(kinds, n) == [kind : kinds, fields : SeqsUpTo(VisibilityKind, n)]

NoItem == [kind |-> "None", fields |-> <<>>]

--------------------------------------------------------------------------
(* The pieces of check_item. *)

\* VisibilityKind::is_pub (rustc_ast).
is_pub(kind) == kind = "Public"

\* let ItemKind::Struct(ref st, _) = item.kind else { return; };
IsStructOrUnion(kind) == kind \in {"Struct", "Union"}
IsStruct(kind) == kind = "Struct"

\* let Some(first_field) = fields.next() else { return; };
NextUnwrap(fields) == IF Len(fields) = 0 THEN "panicked" ELSE "scan"
NextOrReturn(fields) == IF Len(fields) = 0 THEN "done" ELSE "scan"

\* The field the baseline is read from: first_field.
LastField(fields) == fields[Len(fields)]
FirstField(fields) == fields[1]

\* let all_pub = first_field.vis.kind.is_pub();
AllPub(first_field) == is_pub(first_field)

\* let all_priv = !all_pub;
AllPriv(ap) == ~ap

\* The locals of a call live in the call's own frame.
SharedFrame(w) == 1
Frame(w) == w

msg == "mixed usage of pub and non-pub fields"

HelpPrivateSwapped == "consider using public field here"
HelpPrivate == "consider using private field here"

HelpPublic == "consider using public field here"

\* for field in fields: whether the iterator yields another field after p.
IterSkipsLast(p, n) == p + 1 < n
IterHasNext(p, n) == p < n

\* for field in fields: the index of the field yielded after p were yielded.
NextFieldIndexRev(p, n) == n + 1 - p
NextFieldIndex(p, n) == p + 1

\* if all_priv && field.vis.kind.is_pub()
MismatchPriv(apriv, field) == apriv /\ is_pub(field)

\* else if all_pub && !field.vis.kind.is_pub()
MismatchPubNoNeg(apub, field) == apub /\ is_pub(field)
MismatchPubInheritedOnly(apub, field) == apub /\ field = "Inherited"
MismatchPub(apub, field) == apub /\ ~is_pub(field)

\* span_lint_and_help(cx, &PARTIAL_PUB_FIELDS, field.vis.span, msg, None, help)
span_lint_and_help(span, m, help) == [span |-> span, msg |-> m, help |-> help]

\* return; after a lint.
PcAfterLintContinue == "scan"
PcAfterLint == "done"

\* check_item as a function of the item alone: the diagnostics of one call
\* that runs by itself.
RECURSIVE ScanFrom(_, _, _, _)
ScanFrom(fields, p, apub, apriv) ==
    IF ~IterHasNext(p, Len(fields)) THEN <<>>
    ELSE LET i == NextFieldIndex(p, Len(fields))
             field == fields[i]
         IN  IF MismatchPriv(apriv, field)
               THEN <<span_lint_and_help(i, msg, HelpPrivate)>>
             ELSE IF MismatchPub(apub, field)
               THEN <<span_lint_and_help(i, msg, HelpPublic)>>
             ELSE ScanFrom(fields, p + 1, apub, apriv)

CheckAlone(it) ==
    IF ~IsStruct(it.kind) THEN <<>>
    ELSE IF NextOrReturn(it.fields) # "scan" THEN <<>>
    ELSE LET ap == AllPub(FirstField(it.fields))
         IN  ScanFrom(it.fields, 1, ap, AllPriv(ap))

--------------------------------------------------------------------------
(* State after construction: every worker idle, nothing retained. *)

InitWorkers(W) ==
    /\ pc = [w \in W |-> "idle"]
    /\ item = [w \in W |-> NoItem]
    /\ pos = [w \in W |-> 0]
    /\ all_pub = [w \in W |-> FALSE]
    /\ all_priv = [w \in W |-> FALSE]
    /\ lints = [w \in W |-> <<>>]
    /\ examined = [w \in W |-> {}]
    /\ fixes = [w \in W |-> 0]
    /\ prev = [w \in W |-> 0]

Init == InitWorkers({1})

InitConc == InitWorkers(ConcWorkers)

--------------------------------------------------------------------------
(* The host's visitor calls check_item(cx, item) on worker w. *)
Call(w, pool) ==
    /\ pc[w] = "idle"
    /\ \E it \in pool : item' = [item EXCEPT ![w] = it]
    /\ pc' = [pc EXCEPT ![w] = "entry"]
    /\ pos' = [pos EXCEPT ![w] = 0]
    /\ lints' = [lints EXCEPT ![w] = <<>>]
    /\ examined' = [examined EXCEPT ![w] = {}]
    /\ fixes' = [fixes EXCEPT ![w] = 0]
    /\ prev' = [prev EXCEPT ![w] = 0]
    /\ UNCHANGED <<all_pub, all_priv>>

(* let ItemKind::Struct(ref st, _) = item.kind else { return; }; *)
NotStruct(w) ==
    /\ pc[w] = "entry"
    /\ ~IsStruct(item[w].kind)
    /\ pc' = [pc EXCEPT ![w] = "done"]
    /\ UNCHANGED <<item, pos, all_pub, all_priv, lints, examined, fixes, prev>>

(* let mut fields = st.fields().iter();                                   *)
(* let Some(first_field) = fields.next() else { return; };  -- None       *)
EmptyStruct(w) ==
    /\ pc[w] = "entry"
    /\ IsStruct(item[w].kind)
    /\ Len(item[w].fields) = 0
    /\ pc' = [pc EXCEPT ![w] = NextOrReturn(item[w].fields)]
    /\ UNCHANGED <<item, pos, all_pub, all_priv, lints, examined, fixes, prev>>

(* let Some(first_field) = fields.next() ...  -- Some                      *)
(* let all_pub = first_field.vis.kind.is_pub(); let all_priv = !all_pub;   *)
Baseline(w) ==
    /\ pc[w] = "entry"
    /\ IsStruct(item[w].kind)
    /\ Len(item[w].fields) > 0
    /\ LET ap == AllPub(FirstField(item[w].fields))
       IN  /\ all_pub' = [all_pub EXCEPT ![Frame(w)] = ap]
           /\ all_priv' = [all_priv EXCEPT ![Frame(w)] = AllPriv(ap)]
    /\ pos' = [pos EXCEPT ![w] = 1]
    /\ examined' = [examined EXCEPT ![w] = {1}]
    /\ pc' = [pc EXCEPT ![w] = NextOrReturn(item[w].fields)]
    /\ UNCHANGED <<item, lints, fixes, prev>>

(* One iteration of `for field in fields` that takes the first branch. *)
LintPrivate(w) ==
    /\ pc[w] = "scan"
    /\ IterHasNext(pos[w], Len(item[w].fields))
    /\ LET i == NextFieldIndex(pos[w], Len(item[w].fields))
           field == item[w].fields[i]
       IN  /\ MismatchPriv(all_priv[Frame(w)], field)
           /\ lints' = [lints EXCEPT
                  ![w] = Append(@, span_lint_and_help(i, msg, HelpPrivate))]
           /\ examined' = [examined EXCEPT ![w] = @ \cup {i}]
    /\ pos' = [pos EXCEPT ![w] = @ + 1]
    /\ pc' = [pc EXCEPT ![w] = PcAfterLint]
    /\ UNCHANGED <<item, all_pub, all_priv, fixes, prev>>

(* One iteration that takes the else-if branch. *)
LintPublic(w) ==
    /\ pc[w] = "scan"
    /\ IterHasNext(pos[w], Len(item[w].fields))
    /\ LET i == NextFieldIndex(pos[w], Len(item[w].fields))
           field == item[w].fields[i]
       IN  /\ ~MismatchPriv(all_priv[Frame(w)], field)
           /\ MismatchPub(all_pub[Frame(w)], field)
           /\ lints' = [lints EXCEPT
                  ![w] = Append(@, span_lint_and_help(i, msg, HelpPublic))]
           /\ examined' = [examined EXCEPT ![w] = @ \cup {i}]
    /\ pos' = [pos EXCEPT ![w] = @ + 1]
    /\ pc' = [pc EXCEPT ![w] = PcAfterLint]
    /\ UNCHANGED <<item, all_pub, all_priv, fixes, prev>>

(* One iteration that takes neither branch: the field agrees. *)
Agree(w) ==
    /\ pc[w] = "scan"
    /\ IterHasNext(pos[w], Len(item[w].fields))
    /\ LET i == NextFieldIndex(pos[w], Len(item[w].fields))
           field == item[w].fields[i]
       IN  /\ ~MismatchPriv(all_priv[Frame(w)], field)
           /\ ~MismatchPub(all_pub[Frame(w)], field)
           /\ examined' = [examined EXCEPT ![w] = @ \cup {i}]
    /\ pos' = [pos EXCEPT ![w] = @ + 1]
    /\ UNCHANGED <<pc, item, all_pub, all_priv, lints, fixes, prev>>

(* The iterator is exhausted: the loop ends and check_item returns. *)
Exhausted(w) ==
    /\ pc[w] = "scan"
    /\ ~IterHasNext(pos[w], Len(item[w].fields))
    /\ pc' = [pc EXCEPT ![w] = "done"]
    /\ UNCHANGED <<item, pos, all_pub, all_priv, lints, examined, fixes, prev>>

(* The call has returned; the host moves on and the frame is gone. *)
Return(w) ==
    /\ pc[w] = "done"
    /\ pc' = [pc EXCEPT ![w] = "idle"]
    /\ item' = [item EXCEPT ![w] = NoItem]
    /\ pos' = [pos EXCEPT ![w] = 0]
    /\ all_pub' = [all_pub EXCEPT ![Frame(w)] = FALSE]
    /\ all_priv' = [all_priv EXCEPT ![Frame(w)] = FALSE]
    /\ lints' = [lints EXCEPT ![w] = <<>>]
    /\ examined' = [examined EXCEPT ![w] = {}]
    /\ fixes' = [fixes EXCEPT ![w] = 0]
    /\ prev' = [prev EXCEPT ![w] = 0]

(* The author changes only the reported field's visibility to the          *)
(* baseline (the first field's visibility) and the host checks the item    *)
(* again.                                                                  *)
Fix(w) ==
    /\ pc[w] = "done"
    /\ lints[w] # <<>>
    /\ fixes[w] < Len(item[w].fields)
    /\ LET reported == lints[w][1].span
       IN  /\ item' = [item EXCEPT
                  ![w].fields[reported] = item[w].fields[1]]
           /\ prev' = [prev EXCEPT ![w] = reported]
    /\ fixes' = [fixes EXCEPT ![w] = @ + 1]
    /\ pc' = [pc EXCEPT ![w] = "entry"]
    /\ pos' = [pos EXCEPT ![w] = 0]
    /\ all_pub' = [all_pub EXCEPT ![Frame(w)] = FALSE]
    /\ all_priv' = [all_priv EXCEPT ![Frame(w)] = FALSE]
    /\ lints' = [lints EXCEPT ![w] = <<>>]
    /\ examined' = [examined EXCEPT ![w] = {}]

Next ==
    \E w \in {1} :
        \/ Call(w, Items(ItemKinds, MaxFields))
        \/ NotStruct(w)
        \/ EmptyStruct(w)
        \/ Baseline(w)
        \/ LintPrivate(w)
        \/ LintPublic(w)
        \/ Agree(w)
        \/ Exhausted(w)
        \/ Return(w)
        \/ Fix(w)

Spec == Init /\ [][Next]_vars

NextConc ==
    \E w \in ConcWorkers :
        \/ Call(w, Items(ConcItemKinds, MaxFieldsConc))
        \/ NotStruct(w)
        \/ EmptyStruct(w)
        \/ Baseline(w)
        \/ LintPrivate(w)
        \/ LintPublic(w)
        \/ Agree(w)
        \/ Exhausted(w)
        \/ Return(w)

SpecConc == InitConc /\ [][NextConc]_vars

--------------------------------------------------------------------------
(* Properties. *)

Workers == DOMAIN pc

\* Worker w's call has returned from a struct item.
StructDone(w) == pc[w] = "done" /\ item[w].kind = "Struct"

\* C1: a finished check of a struct whose first field is non-public and
\* that has a public field after it has emitted exactly one diagnostic: at
\* the earliest public field after the first (every field between is
\* non-public), with the mixed-usage message and the "private" help.
C1_PrivFirstReportsEarliestPub ==
    \A w \in Workers :
        LET f == item[w].fields
            n == Len(f)
        IN  (/\ StructDone(w)
             /\ n >= 2
             /\ f[1] # "Public"
             /\ \E i \in 2..n : f[i] = "Public")
            => /\ Len(lints[w]) = 1
               /\ LET d == lints[w][1]
                  IN  /\ d.span \in 2..n
                      /\ f[d.span] = "Public"
                      /\ \A j \in 2..(d.span - 1) : f[j] # "Public"
                      /\ d.msg = "mixed usage of pub and non-pub fields"
                      /\ d.help = "consider using private field here"

\* A non-public first field, a non-public second and a public third field:
\* reported at the third.
C1_Witness ==
    \E w \in Workers :
        /\ StructDone(w)
        /\ Len(item[w].fields) = 3
        /\ item[w].fields[1] # "Public"
        /\ item[w].fields[2] # "Public"
        /\ item[w].fields[3] = "Public"
        /\ Len(lints[w]) = 1
        /\ lints[w][1].span = 3

\* C2: a finished check of a struct whose first field is public and that
\* has a non-public field after it has emitted exactly one diagnostic: at
\* the earliest non-public field after the first (every field between is
\* public), with the mixed-usage message and the "public" help.
C2_PubFirstReportsEarliestNonPub ==
    \A w \in Workers :
        LET f == item[w].fields
            n == Len(f)
        IN  (/\ StructDone(w)
             /\ n >= 2
             /\ f[1] = "Public"
             /\ \E i \in 2..n : f[i] # "Public")
            => /\ Len(lints[w]) = 1
               /\ LET d == lints[w][1]
                  IN  /\ d.span \in 2..n
                      /\ f[d.span] # "Public"
                      /\ \A j \in 2..(d.span - 1) : f[j] = "Public"
                      /\ d.msg = "mixed usage of pub and non-pub fields"
                      /\ d.help = "consider using public field here"

\* The documentation's Color: pub r, pub g, b: reported at b.
C2_Witness ==
    \E w \in Workers :
        /\ StructDone(w)
        /\ item[w].fields = <<"Public", "Public", "Inherited">>
        /\ Len(lints[w]) = 1
        /\ lints[w][1].span = 3

\* C3: a finished check of a struct has emitted a diagnostic if and only if
\* the struct has both a public and a non-public field; in particular a
\* struct whose fields all have the same visibility gets none, whatever the
\* number of fields.
C3_DiagnosticIffMixed ==
    \A w \in Workers :
        LET f == item[w].fields
            n == Len(f)
            mixed == \E i, j \in 1..n : f[i] = "Public" /\ f[j] # "Public"
        IN  StructDone(w) => (lints[w] # <<>> <=> mixed)

\* Three public fields, no diagnostic.
C3_Witness ==
    \E w \in Workers :
        /\ StructDone(w)
        /\ item[w].fields = <<"Public", "Public", "Public">>
        /\ lints[w] = <<>>

\* C4: no call ever fails; a finished check of a struct with no field or
\* one field has emitted nothing; the check of a struct with no field
\* returns before any field is read, and only a struct with a field is
\* ever scanned.
C4_EmptyAndSingleSilent ==
    \A w \in Workers :
        LET n == Len(item[w].fields)
        IN  /\ pc[w] # "panicked"
            /\ (StructDone(w) /\ n <= 1) => lints[w] = <<>>
            /\ (StructDone(w) /\ n = 0) => (pos[w] = 0 /\ examined[w] = {})
            /\ pc[w] = "scan" => n >= 1

\* The check of a struct without fields has returned.
C4_Witness ==
    \E w \in Workers :
        /\ StructDone(w)
        /\ item[w].fields = <<>>
        /\ lints[w] = <<>>

\* C5: a call never holds more than one diagnostic; once it holds one it
\* has returned, and the fields it has read are exactly those up to the
\* reported one.
C5_AtMostOneThenStop ==
    \A w \in Workers :
        /\ Len(lints[w]) <= 1
        /\ lints[w] # <<>> =>
              /\ pc[w] = "done"
              /\ pos[w] = lints[w][1].span
              /\ examined[w] = 1..lints[w][1].span

\* Two mismatching fields after a public first field: one diagnostic, and
\* the third field was never read.
C5_Witness ==
    \E w \in Workers :
        /\ StructDone(w)
        /\ Len(item[w].fields) = 3
        /\ item[w].fields[1] = "Public"
        /\ item[w].fields[2] # "Public"
        /\ item[w].fields[3] # "Public"
        /\ Len(lints[w]) = 1
        /\ 3 \notin examined[w]

\* C6: throughout the scan the baseline is the first field's visibility;
\* no diagnostic is anchored at the first field; the help text is
\* determined by the first field alone; a struct whose first field is
\* non-public and whose other fields are all public is reported at its
\* second field with the "private" help.
C6_BaselineIsFirstField ==
    \A w \in Workers :
        LET f == item[w].fields
            n == Len(f)
        IN  /\ (pc[w] \in {"scan", "done"} /\ item[w].kind = "Struct" /\ n >= 1)
                => /\ all_pub[w] = (f[1] = "Public")
                   /\ all_priv[w] = (f[1] # "Public")
            /\ \A k \in 1..Len(lints[w]) :
                   /\ lints[w][k].span # 1
                   /\ lints[w][k].help =
                          IF f[1] = "Public"
                            THEN "consider using public field here"
                            ELSE "consider using private field here"
            /\ (/\ StructDone(w)
                /\ n >= 2
                /\ f[1] # "Public"
                /\ \A i \in 2..n : f[i] = "Public")
                => lints[w] =
                     <<[span |-> 2,
                        msg |-> "mixed usage of pub and non-pub fields",
                        help |-> "consider using private field here"]>>

\* A private field followed by two public ones: reported at the second.
C6_Witness ==
    \E w \in Workers :
        /\ StructDone(w)
        /\ item[w].fields = <<"Inherited", "Public", "Public">>
        /\ Len(lints[w]) = 1
        /\ lints[w][1].span = 2
        /\ lints[w][1].help = "consider using private field here"

\* C7, the states: a run after a fix that reports anything reports a field
\* strictly after the one reported before; a struct of n fields has had at
\* most n-1 fixes, and fewer while a diagnostic is still pending.
C7_FixProgress ==
    \A w \in Workers :
        LET n == Len(item[w].fields)
        IN  /\ (pc[w] = "done" /\ fixes[w] > 0 /\ lints[w] # <<>>)
                => lints[w][1].span > prev[w]
            /\ fixes[w] > 0 => fixes[w] <= n - 1
            /\ (pc[w] = "done" /\ lints[w] # <<>>) => fixes[w] + 1 <= n - 1

\* C7, the steps: a fix leaves the first field, and so the baseline, as it
\* was.
C7_FixKeepsFirst ==
    \A w \in Workers :
        fixes'[w] = fixes[w] + 1
            => /\ item'[w].kind = item[w].kind
               /\ Len(item'[w].fields) = Len(item[w].fields)
               /\ item'[w].fields[1] = item[w].fields[1]

\* C7: checking and fixing the reported field again and again moves the
\* reported field strictly forward, never changes the first field, and
\* ends with no diagnostic after at most n-1 fixes.
C7_RepeatedFixConverges == []C7_FixProgress /\ [][C7_FixKeepsFirst]_vars

\* A struct of three fields after its second fix (of the third field, the
\* first fix having been of the second): checked clean.
C7_Witness ==
    \E w \in Workers :
        /\ StructDone(w)
        /\ Len(item[w].fields) = 3
        /\ fixes[w] = 2
        /\ prev[w] = 3
        /\ lints[w] = <<>>

\* C8: a finished check of a struct with only restricted and inherited
\* fields has emitted nothing, and one whose first field is public and
\* whose earliest non-public field is restricted has reported that field
\* with the "public" help.
C8_RestrictedIsNonPublic ==
    \A w \in Workers :
        LET f == item[w].fields
            n == Len(f)
        IN  StructDone(w) =>
              /\ (\A i \in 1..n : f[i] \in {"Restricted", "Inherited"})
                    => lints[w] = <<>>
              /\ \A k \in 2..n :
                    (/\ f[k] = "Restricted"
                     /\ \A j \in 1..(k - 1) : f[j] = "Public")
                    => lints[w] =
                         <<[span |-> k,
                            msg |-> "mixed usage of pub and non-pub fields",
                            help |-> "consider using public field here"]>>

\* pub a, pub(crate) b: reported at b.
C8_Witness ==
    \E w \in Workers :
        /\ StructDone(w)
        /\ item[w].fields = <<"Public", "Restricted">>
        /\ Len(lints[w]) = 1
        /\ lints[w][1].span = 2

\* C9: whatever the other worker is doing or has done, a finished call
\* holds exactly the diagnostics of a call on the same item run by
\* itself, and two finished calls on equal items hold equal diagnostics.
C9_OutcomeDependsOnItemOnly ==
    /\ \A w \in Workers :
           pc[w] = "done" => lints[w] = CheckAlone(item[w])
    /\ \A w1, w2 \in Workers :
           (pc[w1] = "done" /\ pc[w2] = "done" /\ item[w1] = item[w2])
               => lints[w1] = lints[w2]

\* Two workers have each finished a check of the same mixed struct and
\* hold the same single diagnostic.
C9_Witness ==
    \E w1, w2 \in Workers :
        /\ w1 # w2
        /\ StructDone(w1)
        /\ StructDone(w2)
        /\ item[w1].fields = <<"Public", "Inherited">>
        /\ item[w2] = item[w1]
        /\ Len(lints[w1]) = 1
        /\ lints[w2] = lints[w1]

\* C10: an item that is not a struct is never scanned: its call reads no
\* field and emits no diagnostic, whatever the visibilities inside it.
C10_OnlyStructsScanned ==
    \A w \in Workers :
        /\ pc[w] = "scan" => item[w].kind = "Struct"
        /\ (pc[w] # "idle" /\ item[w].kind # "Struct")
              => /\ lints[w] = <<>>
                 /\ examined[w] = {}
                 /\ pos[w] = 0

\* A union with a public and a private field: checked, nothing emitted.
C10_Witness ==
    \E w \in Workers :
        /\ pc[w] = "done"
        /\ item[w].kind = "Union"
        /\ item[w].fields = <<"Public", "Inherited">>
        /\ lints[w] = <<>>

====
